---- MODULE Spec2Model ----
(***************************************************************************)
(* Model of http/codegen/server_types.go.                                  *)
(*                                                                         *)
(* Two state machines share the module:                                    *)
(*   SpecGen    ServerTypeFiles / serverType: the section list built for   *)
(*              a service from its endpoint data, run after run, with the  *)
(*              ServerTypeNames registry kept in the HTTPServices data.    *)
(*              root.API.HTTP.Services holds one service, with two         *)
(*              endpoints; each pass returns one file.                     *)
(*   SpecField  fieldCode, called by the server-payload-init template:     *)
(*              the loop over the constructor arguments, one per step.     *)
(***************************************************************************)
EXTENDS Naturals, Sequences, FiniteSets

VARIABLES
    \* ---- data read through HTTPServices.Get(svc.Name()) ----
    endpoints,        \* endpoint name -> EndpointData
    attrTypes,        \* data.ServerBodyAttributeTypes
    ServerTypeNames,  \* data.ServerTypeNames: type name -> generated?
    \* ---- ServerTypeFiles / serverType ----
    gpc,              \* position of the generation pass
    seen,             \* the seen map ServerTypeFiles hands to serverType
    sections,         \* serverType's sections
    initData,         \* serverType's initData
    validatedTypes,   \* serverType's validatedTypes
    ri,               \* response-body references consumed by the loop of line 102
    files,            \* the section lists returned by the runs so far
    \* ---- fieldCode and the template calling it ----
    fpc,              \* position of the constructor rendering
    code,             \* .ServerCode
    retAttr,          \* .ReturnTypeAttribute ("" when there is none)
    targetVar,        \* fieldCode's targetVar
    scope,            \* names reserved in the NameScope of line 216
    argNames,         \* names of the arguments read so far, in order
    arg,              \* the loop variable of line 222 (a sequence of 0 or 1)
    outcome,          \* c, h, err of the last GoTransformToVar call (a sequence of 0 or 1)
    init,             \* fieldCode's init, line by line
    post,             \* fieldCode's post, line by line
    result,           \* fieldCode's return value (a sequence of 0 or 1)
    panicked,         \* the value fieldCode panicked with (a sequence of 0 or 1)
    body              \* the constructor body the template rendered

gvars == <<endpoints, attrTypes, ServerTypeNames, gpc, seen, sections, initData,
           validatedTypes, ri, files>>
fvars == <<fpc, code, retAttr, targetVar, scope, argNames, arg, outcome, init,
           post, result, panicked, body>>
vars == <<gvars, fvars>>

(***************************************************************************)
(* Bounds.                                                                 *)
(***************************************************************************)
\* type references the service's endpoint data holds, all kinds together
MaxRefs == 3
\* generation passes over the same HTTPServices data
MaxRuns == 2
\* arguments of one constructor
MaxArgs == 2

(***************************************************************************)
(* The data serverType reads.                                              *)
(***************************************************************************)
\* svc.HTTPEndpoints, in order
EndpointOrder == <<"a", "b">>

EndpointNames == {EndpointOrder[k] : k \in 1..Len(EndpointOrder)}

\* TypeData values: Name, Def ("" when the body needs no declaration),
\* Init ("" for a nil *InitData, else the constructor's name), ValidateDef.
TypeDatas ==
    { [Name |-> "A", Def |-> "struct", Init |-> "NewA", ValidateDef |-> "validate"],
      [Name |-> "B", Def |-> "struct", Init |-> "",     ValidateDef |-> ""],
      [Name |-> "B", Def |-> "",       Init |-> "NewB", ValidateDef |-> "validate"] }

\* An endpoint with no bodies: optional values are sequences of 0 or 1.
EmptyEndpoint ==
    [ ServerBody   |-> <<>>,   \* adata.Payload.Request.ServerBody
      ServerStream |-> <<>>,   \* adata.ServerStream, holding its Payload (0 or 1)
      PayloadInit  |-> <<>>,   \* adata.Payload.Request.PayloadInit
      Responses    |-> <<>>,   \* ServerBody entries of adata.Result.Responses, in loop order
      Errors       |-> <<>> ]  \* ServerBody entries of adata.Errors, in loop order

Section(name, data) == [Name |-> name, Data |-> data]

\* codegen.Header(...), the first section of every file
Header == Section("source-header", "types.go")

\* a type declaration section, when the TypeData carries a definition
TypeDecl(name, data) == IF data.Def # "" THEN <<Section(name, data)>> ELSE <<>>

\* the TypeData itself, when it carries validation code
Validated(data) == IF data.ValidateDef # "" THEN <<data>> ELSE <<>>

\* its constructor, when it has one
BodyInit(data) == IF data.Init # "" THEN <<data.Init>> ELSE <<>>

\* adata.ServerStream.Payload of endpoint e: a sequence of 0 or 1 TypeData
StreamPayload(e) ==
    IF endpoints[e].ServerStream = <<>> THEN <<>> ELSE endpoints[e].ServerStream[1]

RECURSIVE RespRefsOf(_)
\* the references the loops of lines 102-105 visit, in order
RespRefsOf(es) ==
    IF es = <<>> THEN <<>>
    ELSE endpoints[Head(es)].Responses \o RespRefsOf(Tail(es))

RespRefs == RespRefsOf(EndpointOrder)

RECURSIVE NumRefsOf(_)
NumRefsOf(es) ==
    IF es = <<>> THEN 0
    ELSE LET d == endpoints[Head(es)]
         IN Len(d.ServerBody) + Len(d.ServerStream) + Len(d.PayloadInit)
            + Len(d.Responses) + Len(d.Errors) + NumRefsOf(Tail(es))

\* how much endpoint data the service holds
NumRefs == NumRefsOf(EndpointOrder) + Len(attrTypes)

(***************************************************************************)
(* The service's endpoint data, as the design is evaluated: one body,      *)
(* stream or attribute type at a time, until the first generation pass.    *)
(***************************************************************************)
Designing == gpc = "design" /\ NumRefs < MaxRefs

GenLocals == <<gpc, seen, sections, initData, validatedTypes, ri, files>>

SetRequestBody(e, td) ==
    /\ Designing
    /\ endpoints[e].ServerBody = <<>>
    /\ endpoints' = [endpoints EXCEPT ![e].ServerBody = <<td>>]
    /\ UNCHANGED <<attrTypes, ServerTypeNames, GenLocals, fvars>>

\* payload is a sequence of 0 or 1 TypeData: a stream may carry no payload
SetServerStream(e, payload) ==
    /\ Designing
    /\ endpoints[e].ServerStream = <<>>
    /\ endpoints' = [endpoints EXCEPT ![e].ServerStream = <<payload>>]
    /\ UNCHANGED <<attrTypes, ServerTypeNames, GenLocals, fvars>>

SetPayloadInit(e) ==
    /\ Designing
    /\ endpoints[e].PayloadInit = <<>>
    /\ endpoints' = [endpoints EXCEPT ![e].PayloadInit = <<"NewPayload">>]
    /\ UNCHANGED <<attrTypes, ServerTypeNames, GenLocals, fvars>>

\* A response body type is entered in ServerTypeNames as not yet generated.
AddResponseBody(e, td) ==
    /\ Designing
    /\ endpoints' = [endpoints EXCEPT ![e].Responses = Append(@, td)]
    /\ ServerTypeNames' =
         IF td.Name \in DOMAIN ServerTypeNames THEN ServerTypeNames
         ELSE [n \in DOMAIN ServerTypeNames \cup {td.Name} |->
                 IF n = td.Name THEN FALSE ELSE ServerTypeNames[n]]
    /\ UNCHANGED <<attrTypes, GenLocals, fvars>>

AddErrorBody(e, td) ==
    /\ Designing
    /\ endpoints' = [endpoints EXCEPT ![e].Errors = Append(@, td)]
    /\ UNCHANGED <<attrTypes, ServerTypeNames, GenLocals, fvars>>

AddAttributeType(td) ==
    /\ Designing
    /\ attrTypes' = Append(attrTypes, td)
    /\ UNCHANGED <<endpoints, ServerTypeNames, GenLocals, fvars>>

(***************************************************************************)
(* ServerTypeFiles and serverType.                                         *)
(***************************************************************************)
ServiceData == <<endpoints, attrTypes>>

\* lines 13-17 and 47-68: a pass starts, serverType starts on the service
ServerTypeFiles ==
    /\ gpc \in {"design", "idle"}
    /\ Len(files) < MaxRuns
    /\ seen' = {}
    /\ sections' = <<Header>>
    /\ initData' = <<>>
    /\ validatedTypes' = <<>>
    /\ ri' = 0
    /\ gpc' = "request"
    /\ UNCHANGED <<ServiceData, ServerTypeNames, files, fvars>>

RECURSIVE RequestDecls(_)
\* lines 71-99, the sections appended
RequestDecls(es) ==
    IF es = <<>> THEN <<>>
    ELSE LET e == Head(es)
             b == endpoints[e].ServerBody
             p == StreamPayload(e)
         IN (IF b # <<>> THEN TypeDecl("request-body-type-decl", b[1]) ELSE <<>>)
            \o (IF p # <<>> THEN TypeDecl("request-body-type-decl", p[1]) ELSE <<>>)
            \o RequestDecls(Tail(es))

RECURSIVE RequestValidated(_)
\* lines 71-99, the validatedTypes appended
RequestValidated(es) ==
    IF es = <<>> THEN <<>>
    ELSE LET e == Head(es)
             b == endpoints[e].ServerBody
             p == StreamPayload(e)
         IN (IF b # <<>> THEN Validated(b[1]) ELSE <<>>)
            \o (IF p # <<>> THEN Validated(p[1]) ELSE <<>>)
            \o RequestValidated(Tail(es))

RequestBodyTypes ==
    /\ gpc = "request"
    /\ sections' = sections \o RequestDecls(EndpointOrder)
    /\ validatedTypes' = validatedTypes \o RequestValidated(EndpointOrder)
    /\ gpc' = "response"
    /\ UNCHANGED <<ServiceData, ServerTypeNames, seen, initData, ri, files, fvars>>

\* line 106 with the mark of line 120 left out of account
NotYetGeneratedIgnoringMark(names, n) == n \in DOMAIN names

\* line 106: generated, ok := data.ServerTypeNames[tdata.Name]; ok && !generated
NotYetGenerated(names, n) == n \in DOMAIN names /\ ~names[n]

\* line 120
MarkGenerated(names, n) == [names EXCEPT ![n] = TRUE]

\* lines 105-122, one reference
ResponseBodyType ==
    /\ gpc = "response"
    /\ ri < Len(RespRefs)
    /\ LET tdata == RespRefs[ri + 1]
       IN IF NotYetGenerated(ServerTypeNames, tdata.Name)
          THEN /\ sections' = sections \o TypeDecl("response-server-body", tdata)
               /\ initData' = initData \o BodyInit(tdata)
               /\ validatedTypes' = validatedTypes \o Validated(tdata)
               /\ ServerTypeNames' = MarkGenerated(ServerTypeNames, tdata.Name)
          ELSE UNCHANGED <<sections, initData, validatedTypes, ServerTypeNames>>
    /\ ri' = ri + 1
    /\ UNCHANGED <<ServiceData, gpc, seen, files, fvars>>

\* the loops of lines 102-124 end
ResponseBodyTypesDone ==
    /\ gpc = "response"
    /\ ri = Len(RespRefs)
    /\ gpc' = "error"
    /\ UNCHANGED <<ServiceData, ServerTypeNames, seen, sections, initData,
                   validatedTypes, ri, files, fvars>>

RECURSIVE ErrorRefsOf(_)
\* the references the loops of lines 127-131 visit, in order
ErrorRefsOf(es) ==
    IF es = <<>> THEN <<>>
    ELSE endpoints[Head(es)].Errors \o ErrorRefsOf(Tail(es))

RECURSIVE DeclsOf(_, _)
DeclsOf(name, tds) ==
    IF tds = <<>> THEN <<>>
    ELSE TypeDecl(name, Head(tds)) \o DeclsOf(name, Tail(tds))

RECURSIVE InitsOf(_)
InitsOf(tds) ==
    IF tds = <<>> THEN <<>> ELSE BodyInit(Head(tds)) \o InitsOf(Tail(tds))

RECURSIVE ValidatedOf(_)
ValidatedOf(tds) ==
    IF tds = <<>> THEN <<>> ELSE Validated(Head(tds)) \o ValidatedOf(Tail(tds))

\* lines 127-148
ErrorBodyTypes ==
    /\ gpc = "error"
    /\ LET refs == ErrorRefsOf(EndpointOrder)
       IN /\ sections' = sections \o DeclsOf("error-body-type-decl", refs)
          /\ initData' = initData \o InitsOf(refs)
          /\ validatedTypes' = validatedTypes \o ValidatedOf(refs)
    /\ gpc' = "attributes"
    /\ UNCHANGED <<ServiceData, ServerTypeNames, seen, ri, files, fvars>>

\* lines 151-163
BodyAttributeTypes ==
    /\ gpc = "attributes"
    /\ sections' = sections \o DeclsOf("server-body-attributes", attrTypes)
    /\ validatedTypes' = validatedTypes \o ValidatedOf(attrTypes)
    /\ gpc' = "constructors"
    /\ UNCHANGED <<ServiceData, ServerTypeNames, seen, initData, ri, files, fvars>>

RECURSIVE SectionsOf(_, _)
SectionsOf(name, datas) ==
    IF datas = <<>> THEN <<>>
    ELSE <<Section(name, Head(datas))>> \o SectionsOf(name, Tail(datas))

RECURSIVE PayloadInits(_)
\* lines 174-198, the constructors of the request payloads
PayloadInits(es) ==
    IF es = <<>> THEN <<>>
    ELSE LET e == Head(es)
             p == StreamPayload(e)
         IN endpoints[e].PayloadInit
            \o (IF p # <<>> THEN BodyInit(p[1]) ELSE <<>>)
            \o PayloadInits(Tail(es))

\* lines 166-198
Constructors ==
    /\ gpc = "constructors"
    /\ sections' = sections \o SectionsOf("server-body-init", initData)
                     \o SectionsOf("server-payload-init", PayloadInits(EndpointOrder))
    /\ gpc' = "validate"
    /\ UNCHANGED <<ServiceData, ServerTypeNames, seen, initData, validatedTypes,
                   ri, files, fvars>>

\* lines 201-209 and 17-19: the validators, and the file is returned
ValidateAndReturn ==
    /\ gpc = "validate"
    /\ LET all == sections \o SectionsOf("server-validate", validatedTypes)
       IN /\ sections' = all
          /\ files' = Append(files, all)
    /\ gpc' = "idle"
    /\ UNCHANGED <<ServiceData, ServerTypeNames, seen, initData, validatedTypes,
                   ri, fvars>>

\* the fieldCode machine at rest
FieldOff ==
    /\ fpc = "off"
    /\ code = ""
    /\ retAttr = ""
    /\ targetVar = <<>>
    /\ scope = {}
    /\ argNames = <<>>
    /\ arg = <<>>
    /\ outcome = <<>>
    /\ init = <<>>
    /\ post = <<>>
    /\ result = <<>>
    /\ panicked = <<>>
    /\ body = <<>>

\* no endpoint data yet, no pass yet
InitGen ==
    /\ endpoints = [e \in EndpointNames |-> EmptyEndpoint]
    /\ attrTypes = <<>>
    /\ ServerTypeNames = <<>>
    /\ gpc = "design"
    /\ seen = {}
    /\ sections = <<>>
    /\ initData = <<>>
    /\ validatedTypes = <<>>
    /\ ri = 0
    /\ files = <<>>
    /\ FieldOff

NextGen ==
    \/ \E e \in EndpointNames, td \in TypeDatas : SetRequestBody(e, td)
    \/ \E e \in EndpointNames, td \in TypeDatas : SetServerStream(e, <<td>>)
    \/ \E e \in EndpointNames : SetServerStream(e, <<>>)
    \/ \E e \in EndpointNames : SetPayloadInit(e)
    \/ \E e \in EndpointNames, td \in TypeDatas : AddResponseBody(e, td)
    \/ \E e \in EndpointNames, td \in TypeDatas : AddErrorBody(e, td)
    \/ \E td \in TypeDatas : AddAttributeType(td)
    \/ ServerTypeFiles
    \/ RequestBodyTypes
    \/ ResponseBodyType
    \/ ResponseBodyTypesDone
    \/ ErrorBodyTypes
    \/ BodyAttributeTypes
    \/ Constructors
    \/ ValidateAndReturn

SpecGen == InitGen /\ [][NextGen]_vars

(***************************************************************************)
(* Claims about serverType and ServerTypeFiles (under SpecGen).            *)
(***************************************************************************)
TypeNames == {td.Name : td \in TypeDatas}

DeclSections ==
    {"request-body-type-decl", "response-server-body",
     "error-body-type-decl", "server-body-attributes"}

\* the type declarations named n among the sections secs, of the kinds in kinds
DeclsNamed(secs, kinds, n) ==
    {k \in 1..Len(secs) : secs[k].Name \in kinds /\ secs[k].Data.Name = n}

\* C1: in the section list of one service, a type declaration with a given
\* name is emitted at most once, whatever the kind of declaration.
C1_DeclaredAtMostOnce ==
    \A n \in TypeNames : Cardinality(DeclsNamed(sections, DeclSections, n)) <= 1

\* the reference about to be read is the first ever made to its type name
FirstReference ==
    /\ Len(files) = 0
    /\ \A k \in 1..ri : RespRefs[k].Name # RespRefs[ri + 1].Name

C2_Step ==
    /\ \A n \in DOMAIN ServerTypeNames :
         ServerTypeNames[n] => (n \in DOMAIN ServerTypeNames' /\ ServerTypeNames'[n])
    /\ (gpc = "response" /\ ri' = ri + 1) =>
         LET tdata == RespRefs[ri + 1]
         IN IF FirstReference
            THEN /\ sections' = sections \o TypeDecl("response-server-body", tdata)
                 /\ initData' = initData \o BodyInit(tdata)
                 /\ validatedTypes' = validatedTypes \o Validated(tdata)
                 /\ ServerTypeNames'[tdata.Name]
            ELSE UNCHANGED <<sections, initData, validatedTypes>>

\* C2: of the response-body references to one type name, the first is taken
\* as not yet declared and contributes its declaration, constructor and
\* validator entries; every later one contributes nothing; and the registry
\* flag of a name never goes back from declared to undeclared.
C2_FirstReferenceOnly == [][C2_Step]_vars

\* C2, reached: a second reference to a declared type has been read and only the first
\* left a declaration
C2_Witness ==
    /\ gpc = "response"
    /\ ri = 2
    /\ RespRefs[1].Name = RespRefs[2].Name
    /\ RespRefs[1].Def # "" /\ RespRefs[2].Def # ""
    /\ Cardinality(DeclsNamed(sections, {"response-server-body"}, RespRefs[1].Name)) = 1
    /\ ServerTypeNames[RespRefs[1].Name]

\* C10: a second pass over the same services and type model returns the
\* same sections as the first.
C10_RunsAgree == \A r \in 1..Len(files) : files[r] = files[1]

(***************************************************************************)
(* fieldCode.  Names are sequences of tokens, so that "tmp" + name is a    *)
(* concatenation; text is kept line by line, each line a record.           *)
(***************************************************************************)
\* data types of the expr package: kind, name, and the shape under the name
Int        == [kind |-> "primitive", name |-> "int",        under |-> "int"]
String     == [kind |-> "primitive", name |-> "string",     under |-> "string"]
StatusType == [kind |-> "user",      name |-> "StatusType", under |-> "string"]
ArrInt     == [kind |-> "array",     name |-> "[]int",      under |-> "[]int"]
Tags       == [kind |-> "user",      name |-> "Tags",       under |-> "[]int"]

\* the zero value of a DataType field left unset
NoType     == [kind |-> "none",      name |-> "",           under |-> ""]

\* types of the arguments (headers, parameters and body attributes)
ArgTypes == {Int, String, StatusType, ArrInt}

\* types of the payload fields they initialise
FieldTypes == {Int, StatusType, ArrInt, Tags}

\* expr.Equal: the same shape, user types compared by name
Equal(a, b) == a.kind = b.kind /\ a.name = b.name /\ a.under = b.under

\* the type assertion arg.FieldType.(expr.UserType)
IsUserType(t) == t.kind = "user"

\* expr.IsPrimitive: a primitive, or a user type defined by one
IsPrimitive(t) == t.under \in {"int", "string"}

\* argument names, as the generated constructor's parameters
ArgNames == {<<"a">>, <<"b">>, <<"tmp", "a">>}

\* the exported field an argument of that name initialises
FieldOf(n) == IF n = <<"a">> THEN "A" ELSE IF n = <<"b">> THEN "B" ELSE "Tmpa"

\* an argument that initialises the field named after it
FieldArg(n, t, ft, p, fp) ==
    [Name |-> n, FieldName |-> FieldOf(n), Type |-> t, FieldType |-> ft,
     Pointer |-> p, FieldPointer |-> fp]

\* an argument that custom code consumes: FieldName is "", no field data
CodeArg(n, t, p) ==
    [Name |-> n, FieldName |-> "", Type |-> t, FieldType |-> NoType,
     Pointer |-> p, FieldPointer |-> FALSE]

\* .ServerCode of the InitData: none, or code that decodes the body into v
ServerCodes == {"", "decode"}

\* .ReturnTypeAttribute of the InitData
ReturnTypeAttributes == {"", "Attr"}

\* what codegen.GoTransformToVar may return: the code, the number of
\* helpers, and the error ("" for nil), which may or may not name the binding
TransformResults ==
    { [c |-> "copy", h |-> 0, err |-> ""],
      [c |-> "copy", h |-> 1, err |-> ""],
      [c |-> "",     h |-> 0, err |-> "error"],
      [c |-> "",     h |-> 0, err |-> "error naming the binding"] }

NoName == <<>>

Line(op, form, var, field, ref, src, star, cast, tmp) ==
    [op |-> op, form |-> form, var |-> var, field |-> field, ref |-> ref,
     src |-> src, star |-> star, cast |-> cast, tmp |-> tmp]

\* "%s := &%s{\n"
AllocLine(var) == Line("alloc", "statement", var, "", "&", NoName, FALSE, "", NoName)

\* "}\n"
CloseLine == Line("close", "literal", NoName, "", "", NoName, FALSE, "", NoName)

\* line 220 left out: no allocation at all
InitStartNever(c, var) == <<>>

\* lines 219-221
InitStart(c, var) == IF c = "" THEN <<AllocLine(var)>> ELSE <<>>

\* the arms of lines 226, 237 and 253 with the alias test first
BranchAliasFirst(a) ==
    IF IsUserType(a.FieldType) /\ IsPrimitive(a.FieldType) THEN "alias"
    ELSE IF Equal(a.Type, a.FieldType) THEN "same"
    ELSE "transform"

\* the alias arm taken only from the primitive under the alias
BranchMatchingSource(a) ==
    IF Equal(a.Type, a.FieldType) THEN "same"
    ELSE IF /\ IsUserType(a.FieldType) /\ IsPrimitive(a.FieldType)
            /\ a.Type.kind = "primitive" /\ a.Type.name = a.FieldType.under
         THEN "alias"
    ELSE "transform"

\* the arms of lines 226, 237 and 253
Branch(a) ==
    IF Equal(a.Type, a.FieldType) THEN "same"
    ELSE IF IsUserType(a.FieldType) /\ IsPrimitive(a.FieldType) THEN "alias"
    ELSE "transform"

\* line 229 without its test of arg.Pointer
DerefAnySource(a) ==
    IF a.FieldPointer /\ IsPrimitive(a.FieldType) THEN "&" ELSE ""

\* lines 228-231
Deref(a) ==
    IF ~a.Pointer /\ a.FieldPointer /\ IsPrimitive(a.FieldType) THEN "&" ELSE ""

\* line 245: "tmp%s" of arg.Name
TmpName(a) == <<"tmp">> \o a.Name

\* lines 262-269 without the test of the helpers
TransformPanicsOnErrorOnly(r) == r.err # ""

\* lines 262-269: the two panics
TransformPanics(r) == r.err # "" \/ r.h > 0

\* what identifies a binding: its name, its source type, its target field
Diagnostic(a) == [name |-> a.Name, source |-> a.Type.name, field |-> a.FieldName]

\* the value of the panic of line 263 or of line 268
PanicValue(r, a) ==
    IF r.err # ""
    THEN [text |-> r.err,
          binding |-> IF r.err = "error naming the binding"
                      THEN <<Diagnostic(a)>> ELSE <<>>]
    ELSE [text |-> "expected 0 transform helpers but got at least 1",
          binding |-> <<>>]

\* lines 273-280 with the statements put first
ResultPostFirst(c, i, p) ==
    IF c # "" THEN p ELSE p \o (IF i # <<>> THEN Append(i, CloseLine) ELSE i)

\* lines 273-280
Result(c, i, p) ==
    IF c # "" THEN p ELSE (IF i # <<>> THEN Append(i, CloseLine) ELSE i) \o p

ServiceVars == <<endpoints, attrTypes, ServerTypeNames>>

\* serverTypeInitT, lines 299-311: the constructor returns a struct, and the
\* template calls fieldCode on "res" or on "v" (lines 213-221)
CallFieldCode(c, attr) ==
    /\ fpc = "template"
    /\ code' = c
    /\ retAttr' = attr
    /\ targetVar' = IF attr # "" THEN <<"res">> ELSE <<"v">>
    /\ scope' = {targetVar'}
    /\ init' = InitStart(c, targetVar')
    /\ post' = <<>>
    /\ fpc' = "loop"
    /\ UNCHANGED <<argNames, arg, outcome, result, panicked, body, gvars>>

\* the lines of serverTypeInitT around the call of fieldCode: r is what
\* fieldCode returned (a sequence of 0 or 1), none when it was not called
ConstructorBody(c, attr, r) ==
    (IF c # ""
     THEN <<Line("code", "statement", <<"v">>, "", "", NoName, FALSE, "", NoName)>>
          \o (IF attr # ""
              THEN <<Line("alloc", "statement", <<"res">>, attr, "", <<"v">>,
                          FALSE, "", NoName)>>
              ELSE <<>>)
     ELSE <<>>)
    \o (IF r # <<>> THEN r[1] ELSE <<>>)
    \o <<Line("return", "statement", IF attr # "" THEN <<"res">> ELSE <<"v">>,
              "", "", NoName, FALSE, "", NoName)>>

\* serverTypeInitT when the constructor returns no struct: no fieldCode
RenderPlain(c, attr) ==
    /\ fpc = "template"
    /\ code' = c
    /\ retAttr' = attr
    /\ body' = ConstructorBody(c, attr, <<>>)
    /\ fpc' = "rendered"
    /\ UNCHANGED <<targetVar, scope, argNames, arg, outcome, init, post, result,
                   panicked, gvars>>

\* line 222: the list holds another argument
MoreArgs == fpc = "loop" /\ Len(argNames) < MaxArgs

\* line 222 reads the next argument: a parameter name not yet used
Reads(a) ==
    /\ \A k \in 1..Len(argNames) : argNames[k] # a.Name
    /\ arg' = <<a>>
    /\ argNames' = Append(argNames, a.Name)

\* lines 223-225
FieldSkip ==
    /\ MoreArgs
    /\ \E n \in ArgNames, t \in ArgTypes, p \in BOOLEAN :
         LET a == CodeArg(n, t, p)
         IN /\ a.FieldName = ""
            /\ Reads(a)
    /\ outcome' = <<>>
    /\ UNCHANGED <<fpc, code, retAttr, targetVar, scope, init, post, result,
                   panicked, body, gvars>>

\* lines 226-236
FieldSame ==
    /\ MoreArgs
    /\ \E n \in ArgNames, t \in ArgTypes, ft \in FieldTypes,
          p \in BOOLEAN, fp \in BOOLEAN :
         LET a == FieldArg(n, t, ft, p, fp)
         IN /\ a.FieldName # ""
            /\ Branch(a) = "same"
            /\ Reads(a)
            /\ IF code # ""
               THEN /\ post' = Append(post, Line("assign", "statement", targetVar,
                                a.FieldName, Deref(a), a.Name, FALSE, "", NoName))
                    /\ init' = init
               ELSE /\ init' = Append(init, Line("assign", "literal", NoName,
                                a.FieldName, Deref(a), a.Name, FALSE, "", NoName))
                    /\ post' = post
    /\ outcome' = <<>>
    /\ UNCHANGED <<fpc, code, retAttr, targetVar, scope, result, panicked, body, gvars>>

\* lines 237-252
FieldAlias ==
    /\ MoreArgs
    /\ \E n \in ArgNames, t \in ArgTypes, ft \in FieldTypes,
          p \in BOOLEAN, fp \in BOOLEAN :
         LET a == FieldArg(n, t, ft, p, fp)
             cast == a.FieldType.name
         IN /\ a.FieldName # ""
            /\ Branch(a) = "alias"
            /\ Reads(a)
            /\ IF a.FieldPointer
               THEN /\ post' = Append(post, Line("tmpcast", "statement", targetVar,
                                a.FieldName, "&", a.Name, a.Pointer, cast, TmpName(a)))
                    /\ init' = init
               ELSE IF code # ""
               THEN /\ post' = Append(post, Line("cast", "statement", targetVar,
                                a.FieldName, "", a.Name, a.Pointer, cast, NoName))
                    /\ init' = init
               ELSE /\ init' = Append(init, Line("cast", "literal", NoName,
                                a.FieldName, "", a.Name, a.Pointer, cast, NoName))
                    /\ post' = post
    /\ outcome' = <<>>
    /\ UNCHANGED <<fpc, code, retAttr, targetVar, scope, result, panicked, body, gvars>>

\* lines 253-271: r is what codegen.GoTransformToVar returns
FieldTransform ==
    /\ MoreArgs
    /\ \E n \in ArgNames, t \in ArgTypes, ft \in FieldTypes,
          p \in BOOLEAN, fp \in BOOLEAN, r \in TransformResults :
         LET a == FieldArg(n, t, ft, p, fp)
         IN /\ a.FieldName # ""
            /\ Branch(a) = "transform"
            /\ Reads(a)
            /\ outcome' = <<r>>
            /\ IF TransformPanics(r)
               THEN /\ panicked' = <<PanicValue(r, a)>>
                    /\ fpc' = "panicked"
                    /\ post' = post
               ELSE /\ post' = Append(post, Line("transform", "statement", targetVar,
                                a.FieldName, "", a.Name, FALSE, "", NoName))
                    /\ UNCHANGED <<panicked, fpc>>
    /\ UNCHANGED <<code, retAttr, targetVar, scope, init, result, body, gvars>>

\* lines 273-280: the list is exhausted
FieldCodeReturns ==
    /\ fpc = "loop"
    /\ result' = <<Result(code, init, post)>>
    /\ fpc' = "returned"
    /\ UNCHANGED <<code, retAttr, targetVar, scope, argNames, arg, outcome, init,
                   post, panicked, body, gvars>>

\* serverTypeInitT, lines 302-313, after fieldCode returned
Render ==
    /\ fpc = "returned"
    /\ body' = ConstructorBody(code, retAttr, result)
    /\ fpc' = "rendered"
    /\ UNCHANGED <<code, retAttr, targetVar, scope, argNames, arg, outcome, init,
                   post, result, panicked, gvars>>

\* the serverType machine at rest
GenOff ==
    /\ endpoints = [e \in EndpointNames |-> EmptyEndpoint]
    /\ attrTypes = <<>>
    /\ ServerTypeNames = <<>>
    /\ gpc = "off"
    /\ seen = {}
    /\ sections = <<>>
    /\ initData = <<>>
    /\ validatedTypes = <<>>
    /\ ri = 0
    /\ files = <<>>

\* the template is about to render one constructor
InitField ==
    /\ fpc = "template"
    /\ code = ""
    /\ retAttr = ""
    /\ targetVar = NoName
    /\ scope = {}
    /\ argNames = <<>>
    /\ arg = <<>>
    /\ outcome = <<>>
    /\ init = <<>>
    /\ post = <<>>
    /\ result = <<>>
    /\ panicked = <<>>
    /\ body = <<>>
    /\ GenOff

NextField ==
    \/ \E c \in ServerCodes, attr \in ReturnTypeAttributes : CallFieldCode(c, attr)
    \/ \E c \in ServerCodes, attr \in ReturnTypeAttributes : RenderPlain(c, attr)
    \/ FieldSkip
    \/ FieldSame
    \/ FieldAlias
    \/ FieldTransform
    \/ FieldCodeReturns
    \/ Render

SpecField == InitField /\ [][NextField]_vars

(***************************************************************************)
(* Claims about fieldCode (under SpecField).                               *)
(***************************************************************************)
\* the binding line 222 read last
Cur == arg[1]

\* a binding has been read and it is not skipped
Bound == arg # <<>> /\ Cur.FieldName # ""

\* the text fieldCode has built so far
Emitted == init \o post

FieldOps == {"assign", "cast", "tmpcast", "transform"}

Casts == {"cast", "tmpcast"}

IsFieldOp(l) == l.op \in FieldOps

IsLiteral(l) == l.form = "literal"

IsStatement(l) == l.form = "statement"

\* where the lines populating the field of argument n stand in text
OpsFor(text, n) == {k \in 1..Len(text) : IsFieldOp(text[k]) /\ text[k].src = n}

\* the place of argument n in the list
PosOf(n) == CHOOSE k \in 1..Len(argNames) : argNames[k] = n

\* the lines of ops follow the order of the argument list
InOrder(ops) ==
    \A i, j \in 1..Len(ops) : i < j => PosOf(ops[i].src) < PosOf(ops[j].src)

\* C3 as stated: the field-populating operations of the output stand in the
\* order of the bindings of the input list, with or without bootstrap code.
C3_InputOrder ==
    result # <<>> => InOrder(SelectSeq(result[1], IsFieldOp))

\* C3: with bootstrap code the operations stand in the order of the
\* bindings; without it the fields set in the composite literal stand in
\* that order, then the statements (casts through a temporary, structural
\* copies) in that order.
C3_OrderWithinLiteralAndStatements ==
    result # <<>> =>
        LET ops == SelectSeq(result[1], IsFieldOp)
        IN /\ code # "" => InOrder(ops)
           /\ code = "" =>
                /\ InOrder(SelectSeq(ops, IsLiteral))
                /\ InOrder(SelectSeq(ops, IsStatement))
                /\ \A i, j \in 1..Len(ops) :
                     i < j => ~(IsStatement(ops[i]) /\ IsLiteral(ops[j]))

\* C3, reached: a literal field of a later binding stands before the statement of an
\* earlier one
C3_Witness ==
    /\ result # <<>>
    /\ code = ""
    /\ ~InOrder(SelectSeq(result[1], IsFieldOp))

\* C4: the temporary of a cast to a pointer field differs from the target
\* variable, from every argument name and from every other temporary.
C4_TemporariesUnique ==
    result # <<>> =>
        LET out == result[1]
            tmps == {k \in 1..Len(out) : out[k].op = "tmpcast"}
        IN \A k \in tmps :
             /\ out[k].tmp \notin scope
             /\ out[k].tmp # targetVar
             /\ \A i \in 1..Len(argNames) : argNames[i] # out[k].tmp
             /\ \A j \in tmps : j # k => out[j].tmp # out[k].tmp

\* the field is an alias of a primitive and the source is that primitive
AliasCastCase(a) ==
    /\ a.FieldType.kind = "user"
    /\ a.FieldType.under \in {"int", "string"}
    /\ a.Type.kind = "primitive"
    /\ a.Type.name = a.FieldType.under

\* C5: a binding whose shapes are equal gets no cast and no structural
\* copy; a binding from a primitive to an alias of it gets no plain
\* assignment.
C5_ShapeCoverage ==
    Bound =>
        LET ks == OpsFor(Emitted, Cur.Name)
        IN /\ Cur.Type = Cur.FieldType =>
                /\ Cardinality(ks) = 1
                /\ \A k \in ks : Emitted[k].op = "assign"
           /\ AliasCastCase(Cur) =>
                /\ Cardinality(ks) = 1
                /\ \A k \in ks : Emitted[k].op \in Casts

\* C5, reached: an alias-typed argument met a field of the same alias and was assigned
C5_Witness ==
    /\ Bound
    /\ Cur.Type = StatusType /\ Cur.FieldType = StatusType
    /\ \E k \in OpsFor(Emitted, Cur.Name) : Emitted[k].op = "assign"

\* the abort of lines 262-269 is due: an error, or at least one helper
TransformFailed == outcome # <<>> /\ (outcome[1].err # "" \/ outcome[1].h > 0)

\* C6 as stated: on an error or a helper fieldCode aborts the whole call,
\* returns no plan, and the abort identifies the binding by name, source
\* shape and target field.
C6_AbortIdentifiesBinding ==
    TransformFailed =>
        /\ fpc = "panicked"
        /\ result = <<>> /\ body = <<>>
        /\ OpsFor(Emitted, Cur.Name) = {}
        /\ panicked # <<>>
        /\ panicked[1].binding = <<Diagnostic(Cur)>>

\* C6: on an error or a helper fieldCode aborts the whole call and returns
\* no plan; the abort carries the sub-transform's error, or for a helper a
\* fixed message that names no binding.
C6_AbortWithoutPlan ==
    /\ TransformFailed =>
        /\ fpc = "panicked"
        /\ result = <<>> /\ body = <<>>
        /\ OpsFor(Emitted, Cur.Name) = {}
        /\ panicked # <<>>
        /\ outcome[1].err # "" => panicked[1].text = outcome[1].err
        /\ outcome[1].err = "" =>
             panicked[1] = [text |-> "expected 0 transform helpers but got at least 1",
                            binding |-> <<>>]
    /\ fpc = "panicked" => TransformFailed

\* C6, reached: the second binding needed a helper after the first had emitted its line
C6_Witness ==
    /\ fpc = "panicked"
    /\ outcome[1].h > 0
    /\ Len(argNames) = 2
    /\ Len(Emitted) >= 2
    /\ result = <<>>

\* C7: with no bootstrap code the constructor body allocates the target
\* variable exactly once, before every line that sets one of its fields,
\* and returns it, for every binding list; with bootstrap code fieldCode
\* emits no allocation.
C7_AllocatedOnceThenReturned ==
    /\ (fpc = "rendered" /\ result # <<>> /\ code = "") =>
         /\ body[1] = AllocLine(targetVar)
         /\ \A k \in 2..Len(body) : body[k].op # "alloc"
         /\ body[Len(body)].op = "return" /\ body[Len(body)].var = targetVar
    /\ (result # <<>> /\ code # "") =>
         \A k \in 1..Len(result[1]) : result[1][k].op # "alloc"

\* C7, reached: no binding at all, no bootstrap code: allocate, close, return
C7_Witness ==
    /\ fpc = "rendered"
    /\ code = ""
    /\ argNames = <<>>
    /\ Len(body) = 3
    /\ body[1].op = "alloc" /\ body[3].op = "return"

\* the field is a user type defined by a primitive
AliasField(a) == a.FieldType.kind = "user" /\ a.FieldType.under \in {"int", "string"}

\* C8 as stated: a cast is emitted only from the primitive under the alias
\* of the field; every other binding whose shapes differ goes to the
\* structural case.
C8_CastOnlyFromMatchingPrimitive ==
    Bound =>
        LET ks == OpsFor(Emitted, Cur.Name)
        IN /\ \A k \in ks : Emitted[k].op \in Casts => AliasCastCase(Cur)
           /\ (Cur.Type # Cur.FieldType /\ ~AliasCastCase(Cur)) =>
                \A k \in ks : Emitted[k].op = "transform"

\* C8: a cast is emitted exactly for the bindings whose shapes differ and
\* whose field is an alias of a primitive, whatever the source type; every
\* other binding whose shapes differ goes to the structural case.
C8_CastForAliasField ==
    Bound =>
        LET ks == OpsFor(Emitted, Cur.Name)
        IN /\ (\E k \in ks : Emitted[k].op \in Casts)
                <=> (Cur.Type # Cur.FieldType /\ AliasField(Cur))
           /\ (Cur.Type # Cur.FieldType /\ ~AliasField(Cur)) =>
                /\ outcome # <<>>
                /\ \A k \in ks : Emitted[k].op = "transform"
                /\ ~TransformFailed => Cardinality(ks) = 1

\* C8, reached: an int argument was cast to the alias of string
C8_Witness ==
    /\ Bound
    /\ Cur.Type = Int /\ Cur.FieldType = StatusType
    /\ \E k \in OpsFor(Emitted, Cur.Name) : Emitted[k].op \in Casts

\* equal shapes, and the field's type is a primitive
SamePrimitive(a) == a.Type = a.FieldType /\ a.FieldType.kind = "primitive"

\* C9 as stated: the address is taken for a pointer field and a value
\* source, the source is dereferenced for a value field and a pointer
\* source, and the assignment is plain when the flags agree.
C9_SymmetricPointerAdjustment ==
    (Bound /\ SamePrimitive(Cur)) =>
        \A k \in OpsFor(Emitted, Cur.Name) :
            LET l == Emitted[k]
            IN /\ (Cur.FieldPointer /\ ~Cur.Pointer) => (l.ref = "&" /\ ~l.star)
               /\ (~Cur.FieldPointer /\ Cur.Pointer) => (l.ref = "" /\ l.star)
               /\ (Cur.FieldPointer = Cur.Pointer) => (l.ref = "" /\ ~l.star)

\* C9: the address is taken for a pointer field and a value source; every
\* other binding, a value field with a pointer source included, gets a
\* plain assignment, and the source is never dereferenced.
C9_AddressOnly ==
    (Bound /\ SamePrimitive(Cur)) =>
        LET ks == OpsFor(Emitted, Cur.Name)
        IN /\ Cardinality(ks) = 1
           /\ \A k \in ks :
                LET l == Emitted[k]
                IN /\ l.op = "assign"
                   /\ ~l.star
                   /\ l.ref = (IF Cur.FieldPointer /\ ~Cur.Pointer THEN "&" ELSE "")

\* C9, reached: a pointer source met a value field and was assigned as it is
C9_Witness ==
    /\ Bound
    /\ SamePrimitive(Cur)
    /\ Cur.Pointer /\ ~Cur.FieldPointer
    /\ \E k \in OpsFor(Emitted, Cur.Name) : Emitted[k].ref = "" /\ ~Emitted[k].star

====
